---- MODULE Spec2Model ----
(***************************************************************************)
(* Query verification subsystem of Google_RAG_Bench.                       *)
(*                                                                         *)
(*   - the three browser-backed searches: the async stealth scraper        *)
(*     scrape_google (notebook/test_playwright.py), GoogleVerifierPlaywright*)
(*     .search and GoogleVerifierSelenium.search                           *)
(*     (src/classes/GoogleVerification.py)              -> SpecSearch      *)
(*   - GoogleVerifierSerpAPI.__init__ / .search and                        *)
(*     BaseGoogleVerifier.verify                        -> SpecVerify      *)
(*   - main (src/main.py)                               -> SpecPipeline    *)
(***************************************************************************)
EXTENDS Integers, Sequences, FiniteSets, TLC

VARIABLES
    \* ---- one browser-backed search() invocation
    backend,        \* "async" | "playwright" | "selenium"
    pc,             \* position of the invocation in its code
    page,           \* the div.g elements of the results page, in document order
    shown,          \* the div.g elements the browser actually displays
    session,        \* "none" | "open" | "closed": the browser session
    timedOut,       \* the results wait found no matching element
    organic,        \* organic_results / results_data built by the extraction loop
    clickedMore,    \* the "Show more" locator was clicked
    ai_overview,    \* local ai_overview of scrape_google
    outcome,        \* "none" | "returned" | "raised"
    error,          \* the exception that left search(), "" when none
    response,       \* the dict search() returned
    seen,           \* what the overview step found: the panel, and the text it read
    failure,        \* the unexpected failure (not a wait timeout) that struck, "" when none
    \* ---- a GoogleVerifierSerpAPI object and the verify() calls made on it
    env_key,        \* os.environ's SERPAPI_KEY, None when unset
    ctor_arg,       \* the api_key argument the constructor was given
    verifier,       \* the constructed object, NoObject while there is none
    v_pc,           \* "Start" | "Failed" | "Ready" | "InSearch" | "Analysing"
    v_prompt,       \* prompt of the verify() call in progress (or last made)
    v_results,      \* what self.search(prompt) returned to that call
    v_printed,      \* the listing verify() printed
    v_record,       \* the verification_result verify() returned
    v_outcome,      \* how the last verify() call ended: "none" | "returned" | "raised"
    v_error,        \* the exception last raised, "" when none
    searchCalls,    \* self.search calls made by the verify() call in progress (or last made)
    verifyCalls,    \* verify() calls made so far
    networkCalls,   \* requests sent to the search API so far
    last_params,    \* params of the last request
    \* ---- one run of main(args)
    m_pc,           \* position of main
    topics,         \* the seed topics main loaded
    worker,         \* the generation process: "notstarted" | "started" | "opened" |
                    \*   "dumped" | "exited_ok" | "exited_crash"
    artifact,       \* the file {tmp_dir}/candidates.pkl
    q_candidates,   \* what main unpickled from the artifact
    q_source,       \* who wrote what main unpickled: "nobody" | "earlier_run" | "this_run"
    export,         \* the file {output_dir}/verified_queries.xlsx
    m_error,        \* the exception that ended main, "" when none
    \* ---- two search() invocations on one sync verifier object
    c_backend,      \* class of the object: "selenium" | "playwright"
    c_pc,           \* position of each invocation
    c_page,         \* the results page of each invocation's query
    c_session,      \* the browser session each invocation uses, "none" before it has one
    c_got,          \* what the browser displayed in answer to each invocation's query
    view,           \* what each browser session currently displays
    c_result        \* what each invocation returned, or the exception it raised

searchVars == <<backend, pc, page, shown, session, timedOut, organic,
                clickedMore, ai_overview, outcome, error, response, seen, failure>>

verifyVars == <<env_key, ctor_arg, verifier, v_pc, v_prompt, v_results, v_printed,
                v_record, v_outcome, v_error, searchCalls, verifyCalls,
                networkCalls, last_params>>

pipeVars == <<m_pc, topics, worker, artifact, q_candidates, q_source, export, m_error>>

concVars == <<c_backend, c_pc, c_page, c_session, c_got, view, c_result>>

vars == <<searchVars, verifyVars, pipeVars, concVars>>

----------------------------------------------------------------------------
(* Bounds *)

\* most div.g elements on a results page
MaxElems == 2

----------------------------------------------------------------------------
(* Values *)

\* Python's None
None == "<None>"

\* a sub-element lookup (query_selector / find_elements) that matched nothing
NoElem == "<no element>"

\* the value of the response variable while search() has returned nothing
NoResponse == [no_response |-> TRUE]

Backends == {"async", "playwright", "selenium"}

\* inner texts of an <h3>, as character sequences: empty, blank, and two titles
\* (one with trailing whitespace)
TitleTexts == {<<>>, <<" ">>, <<"a">>, <<"b", " ">>}

\* an <h3> lookup: <<>> when the element has no <h3>, <<text>> when it has one
H3s == {<<>>} \cup {<<t>> : t \in TitleTexts}

\* a div.g result element: its <h3>, the href of its <a>, the text of its snippet
Elems == [h3 : H3s, a : {NoElem, "http://u"}, sn : {NoElem, "snip"}]

RECURSIVE SeqsUpTo(_, _)
SeqsUpTo(S, n) ==
    IF n = 0 THEN {<<>>}
    ELSE LET shorter == SeqsUpTo(S, n - 1)
         IN shorter \cup {Append(s, x) : s \in {t \in shorter : Len(t) = n - 1}, x \in S}

Pages == SeqsUpTo(Elems, MaxElems)

----------------------------------------------------------------------------
(* Pure helpers *)

IsSpace(c) == c = " "

\* str.strip(): drop leading and trailing whitespace
RECURSIVE LStrip(_)
LStrip(s) == IF s # <<>> /\ IsSpace(Head(s)) THEN LStrip(Tail(s)) ELSE s

RECURSIVE RStrip(_)
RStrip(s) ==
    IF s # <<>> /\ IsSpace(s[Len(s)]) THEN RStrip(SubSeq(s, 1, Len(s) - 1)) ELSE s

Strip(s) == RStrip(LStrip(s))

\* an extraction loop that numbers the emitted results 1, 2, ... instead of
\* using the element's index
RECURSIVE ScrapeFromContiguous(_, _)
ScrapeFromContiguous(divs, idx) ==
    IF idx > Len(divs) THEN <<>>
    ELSE LET div == divs[idx]
             rest == ScrapeFromContiguous(divs, idx + 1)
         IN IF div.h3 = <<>>
            THEN rest
            ELSE <<[position |-> Cardinality({k \in 1..idx : divs[k].h3 # <<>>}),
                    title    |-> div.h3[1],
                    link     |-> IF div.a = NoElem THEN None ELSE div.a,
                    snippet  |-> IF div.sn = NoElem THEN "" ELSE div.sn]>> \o rest

\* scrape_google's extraction loop over result_divs[idx..], idx from enumerate(.., start=1)
RECURSIVE ScrapeFrom(_, _)
ScrapeFrom(divs, idx) ==
    IF idx > Len(divs) THEN <<>>
    ELSE LET div == divs[idx]
             rest == ScrapeFrom(divs, idx + 1)
         IN IF div.h3 = <<>>                         \* if not title_el: continue
            THEN rest
            ELSE <<[position |-> idx,
                    title    |-> div.h3[1],
                    link     |-> IF div.a = NoElem THEN None ELSE div.a,
                    snippet  |-> IF div.sn = NoElem THEN "" ELSE div.sn]>> \o rest

ScrapeResults(divs) == ScrapeFrom(divs, 1)

\* an extraction loop that also skips an element without a link
RECURSIVE SyncFromLinkedOnly(_, _)
SyncFromLinkedOnly(elems, i) ==
    IF i > Len(elems) THEN <<>>
    ELSE LET elem       == elems[i]
             title_text == IF elem.h3 # <<>> THEN elem.h3[1] ELSE <<>>
             rest       == SyncFromLinkedOnly(elems, i + 1)
         IN IF Strip(title_text) = <<>> \/ elem.a = NoElem
            THEN rest
            ELSE <<[title   |-> title_text,
                    link    |-> elem.a,
                    snippet |-> IF elem.sn = NoElem THEN "" ELSE elem.sn]>> \o rest

\* the extraction loop shared (textually) by GoogleVerifierPlaywright.search and
\* GoogleVerifierSelenium.search
RECURSIVE SyncFrom(_, _)
SyncFrom(elems, i) ==
    IF i > Len(elems) THEN <<>>
    ELSE LET elem       == elems[i]
             title_text == IF elem.h3 # <<>> THEN elem.h3[1] ELSE <<>>
             rest       == SyncFrom(elems, i + 1)
         IN IF Strip(title_text) = <<>>              \* if not title_text.strip(): continue
            THEN rest
            ELSE <<[title   |-> title_text,
                    link    |-> IF elem.a = NoElem THEN "" ELSE elem.a,
                    snippet |-> IF elem.sn = NoElem THEN "" ELSE elem.sn]>> \o rest

SyncResults(elems) == SyncFrom(elems, 1)

\* page.wait_for_selector(sel): whether an element matching sel is displayed
HasResultDiv(elems) == Len(elems) >= 1
HasH3(elems) == \E i \in 1..Len(elems) : elems[i].h3 # <<>>

----------------------------------------------------------------------------
(* One browser-backed search() invocation *)

\* what the overview step has found while it has not run
NothingSeen == [panel |-> FALSE, txt |-> NoElem]

\* no invocation has started
SearchIdle ==
    /\ pc = "Idle"
    /\ shown = <<>>
    /\ session = "none"
    /\ timedOut = FALSE
    /\ organic = <<>>
    /\ clickedMore = FALSE
    /\ ai_overview = ""
    /\ outcome = "none"
    /\ error = ""
    /\ response = NoResponse
    /\ seen = NothingSeen
    /\ failure = ""

\* what leaving the function by an exception does to the session: the
\* `with sync_playwright()` / `async with async_playwright()` block stops the
\* driver (and the browser it launched) on exit; GoogleVerifierSelenium holds
\* self.driver and has no such block
SessionAfterRaise == IF backend = "selenium" THEN session ELSE "closed"

RaiseOut(e) ==
    /\ outcome' = "raised"
    /\ error' = e
    /\ failure' = IF e = "TimeoutError" THEN failure ELSE e
    /\ session' = SessionAfterRaise
    /\ pc' = "Done"
    /\ response' = NoResponse

\* acquire the session: chromium.launch/new_context/new_page, or webdriver.Chrome
Launch ==
    /\ UNCHANGED <<verifyVars, pipeVars, concVars>>
    /\ pc = "Idle"
    /\ session' = "open"
    /\ pc' = "Navigating"
    /\ UNCHANGED <<backend, page, shown, timedOut, organic, clickedMore,
                   ai_overview, outcome, error, response, seen, failure>>

\* page.goto / driver.get
Goto ==
    /\ UNCHANGED <<verifyVars, pipeVars, concVars>>
    /\ pc = "Navigating"
    /\ \/ /\ pc' = "Typing"
          /\ UNCHANGED <<session, outcome, error, response, failure>>
       \/ RaiseOut("NavigationError")
    /\ UNCHANGED <<backend, page, shown, timedOut, organic, clickedMore,
                   ai_overview, seen>>

\* locate the query box, type the query, press Enter; the browser then displays
\* the results page or a block/captcha page without result elements
Submit ==
    /\ UNCHANGED <<verifyVars, pipeVars, concVars>>
    /\ pc = "Typing"
    /\ \/ /\ pc' = "AwaitingResults"
          /\ shown' \in {page, <<>>}
          /\ UNCHANGED <<session, outcome, error, response, failure>>
       \/ /\ RaiseOut("InputError")
          /\ UNCHANGED shown
    /\ UNCHANGED <<backend, page, timedOut, organic, clickedMore, ai_overview, seen>>

\* scrape_google: the except branch of the results wait: print, browser.close(),
\* return {"results_data": [], "ai_overview": ""}
ReturnEmpty ==
    /\ pc' = "Done"
    /\ session' = "closed"
    /\ outcome' = "returned"
    /\ response' = [results_data |-> <<>>, ai_overview |-> ""]

\* scrape_google: try: wait_for_selector("div.g") except: (bare) close, return
\* empty.  The bare except also catches a browser that dies during the wait.
WaitAsync ==
    /\ UNCHANGED <<verifyVars, pipeVars, concVars>>
    /\ pc = "AwaitingResults"
    /\ backend = "async"
    /\ \/ IF HasResultDiv(shown)
          THEN /\ pc' = "ResultsLoaded"
               /\ UNCHANGED <<timedOut, session, outcome, response, failure>>
          ELSE /\ timedOut' = TRUE
               /\ ReturnEmpty
               /\ UNCHANGED failure
       \/ /\ failure' = "CrashDuringWait"
          /\ ReturnEmpty
          /\ UNCHANGED timedOut
    /\ UNCHANGED <<backend, page, shown, organic, clickedMore, ai_overview, error, seen>>

\* GoogleVerifierPlaywright: page.wait_for_selector("h3", timeout=6000), unguarded
WaitPlaywright ==
    /\ UNCHANGED <<verifyVars, pipeVars, concVars>>
    /\ pc = "AwaitingResults"
    /\ backend = "playwright"
    /\ \/ IF HasH3(shown)
          THEN /\ pc' = "ResultsLoaded"
               /\ UNCHANGED <<timedOut, session, outcome, error, response, failure>>
          ELSE /\ timedOut' = TRUE
               /\ RaiseOut("TimeoutError")
       \/ /\ RaiseOut("CrashDuringWait")
          /\ UNCHANGED timedOut
    /\ UNCHANGED <<backend, page, shown, organic, clickedMore, ai_overview, seen>>

\* GoogleVerifierSelenium: time.sleep(2), then find_elements (which matches nothing
\* on a block page)
WaitSelenium ==
    /\ UNCHANGED <<verifyVars, pipeVars, concVars>>
    /\ pc = "AwaitingResults"
    /\ backend = "selenium"
    /\ \/ /\ timedOut' = ~HasResultDiv(shown)
          /\ pc' = "ResultsLoaded"
          /\ UNCHANGED <<session, outcome, error, response, failure>>
       \/ /\ RaiseOut("CrashDuringWait")
          /\ UNCHANGED timedOut
    /\ UNCHANGED <<backend, page, shown, organic, clickedMore, ai_overview, seen>>

\* the extraction loop over the displayed result elements
Extract ==
    /\ UNCHANGED <<verifyVars, pipeVars, concVars>>
    /\ pc = "ResultsLoaded"
    /\ \/ /\ backend = "async"
          /\ organic' = ScrapeResults(shown)
          /\ pc' = "ShowMore"
          /\ UNCHANGED <<session, outcome, error, response, failure>>
       \/ /\ backend = "playwright"
          /\ organic' = SyncResults(shown)
          /\ pc' = "Closing"
          /\ UNCHANGED <<session, outcome, error, response, failure>>
       \/ /\ backend = "selenium"                 \* return {"organic_results": ...}
          /\ organic' = SyncResults(shown)
          /\ pc' = "Done"
          /\ outcome' = "returned"
          /\ response' = [organic_results |-> SyncResults(shown)]
          /\ UNCHANGED <<session, error, failure>>
       \/ /\ RaiseOut("DriverError")              \* an element call fails
          /\ UNCHANGED organic
    /\ UNCHANGED <<backend, page, shown, timedOut, clickedMore, ai_overview, seen>>

\* what a click on "Show more" adds to the displayed result elements
Revealable ==
    {<<>>, <<[h3 |-> <<<<"a">>>>, a |-> "http://u", sn |-> "snip"]>>}

\* scrape_google: try: wait for "Show more", scroll, click  except Exception: print.
\* It runs after the extraction loop, and nothing is extracted after it.
ShowMore ==
    /\ UNCHANGED <<verifyVars, pipeVars, concVars>>
    /\ pc = "ShowMore"
    /\ \/ /\ clickedMore' = TRUE                   \* visible and clicked
          /\ \E more \in Revealable : shown' = shown \o more
          /\ UNCHANGED failure
       \/ /\ clickedMore' = FALSE                  \* absent, not clickable, timed out
          /\ UNCHANGED <<shown, failure>>
       \/ /\ clickedMore' = FALSE                  \* the browser dies: caught as well
          /\ failure' = "CrashDuringShowMore"
          /\ UNCHANGED shown
    /\ pc' = "AwaitingOverview"
    /\ UNCHANGED <<backend, page, session, timedOut, organic,
                   ai_overview, outcome, error, response, seen>>

\* an overview block whose ai_overview starts as None
OverviewTextNoneDefault(panel, txt) == IF panel /\ txt # NoElem THEN txt ELSE None

\* scrape_google: ai_overview after the overview block: the text read when the
\* panel appeared and the read succeeded, else the initial ""

OverviewText(panel, txt) == IF panel /\ txt # NoElem THEN txt ELSE ""

\* scrape_google: try: wait for the panel, try to expand it (inner try/except:
\* pass), read div.YzCcne  except: pass.  panel: the container appeared; txt: the
\* inner text read, NoElem when the read failed.  A dead browser shows nothing.
Overview ==
    /\ UNCHANGED <<verifyVars, pipeVars, concVars>>
    /\ pc = "AwaitingOverview"
    /\ \/ /\ \E panel \in BOOLEAN, txt \in {NoElem, "", "overview"} :
                /\ failure = "" \/ (~panel /\ txt = NoElem)
                /\ seen' = [panel |-> panel, txt |-> txt]
                /\ ai_overview' = OverviewText(panel, txt)
          /\ UNCHANGED failure
       \/ /\ failure' = "CrashDuringOverview"      \* the browser dies: caught
          /\ seen' = NothingSeen
          /\ ai_overview' = OverviewText(FALSE, NoElem)
    /\ pc' = "Closing"
    /\ UNCHANGED <<backend, page, shown, session, timedOut, organic,
                   clickedMore, outcome, error, response>>

\* browser.close() and the return statement
Close ==
    /\ UNCHANGED <<verifyVars, pipeVars, concVars>>
    /\ pc = "Closing"
    /\ session' = "closed"
    /\ outcome' = "returned"
    /\ pc' = "Done"
    /\ response' = IF backend = "async"
                   THEN [results_data |-> organic, ai_overview |-> ai_overview]
                   ELSE [organic_results |-> organic]
    /\ UNCHANGED <<backend, page, shown, timedOut, organic, clickedMore,
                   ai_overview, error, seen, failure>>

----------------------------------------------------------------------------
(* GoogleVerifierSerpAPI and BaseGoogleVerifier.verify *)

\* most results in one response; above TopN, so that the printed listing and the
\* result list differ
MaxResults == 11

\* most verify() calls on one verifier
MaxVerifyCalls == 2

\* verify() prints organic_results[:10]
TopN == 10

NoObject == [no_object |-> TRUE]
NoRecord == [no_record |-> TRUE]
NoParams == [no_params |-> TRUE]

Prompts == {"p1", "p2"}

\* values of the api_key argument and of the environment variable
KeyArgs == {None, "", "argkey"}
EnvKeys == {None, "", "envkey"}

\* Python truthiness of an optional string
Truthy(x) == x # None /\ x # ""

\* Python's `a or b`
PyOr(a, b) == IF Truthy(a) THEN a ELSE b

\* dict.get(key, default)
Get(d, key, default) == IF key \in DOMAIN d THEN d[key] ELSE default

Min(a, b) == IF a <= b THEN a ELSE b

\* result entries as the search API gives them, and entries lacking link and snippet
FullEntry(i) == [position |-> i, title |-> "t", link |-> "l", snippet |-> "s"]
BareEntry(i) == [title |-> "t"]

OrganicList(n, kind) ==
    [i \in 1..n |-> IF kind = "full" THEN FullEntry(i) ELSE BareEntry(i)]

\* dicts a search() may return: with organic_results (as the API usually does and
\* the browser backends always do), an API error dict, a dict without
\* organic_results, and one keyed the way scrape_google keys its results
SearchResponses ==
    {[organic_results |-> OrganicList(n, kind)] :
        n \in 0..MaxResults, kind \in {"full", "bare"}}
    \cup {[error |-> "Invalid API key."],
          [search_metadata |-> "Success"],
          [results_data |-> OrganicList(1, "full"), ai_overview |-> ""]}

\* a resolution that prefers the environment variable to the argument
ResolveKeyEnvFirst(arg, env) == PyOr(env, arg)

\* GoogleVerifierSerpAPI.__init__: self.api_key = api_key or os.getenv("SERPAPI_KEY")
ResolveKey(arg, env) == PyOr(arg, env)

\* a constructor that does not check the key
KeyNeverRejected(key) == FALSE

\* GoogleVerifierSerpAPI.__init__: `if not self.api_key: raise ValueError`
KeyRejected(key) == ~Truthy(key)

\* GoogleVerifierSerpAPI.search: the request parameters
SearchParams(prompt, key) ==
    [engine |-> "google", q |-> prompt, hl |-> "en", gl |-> "us", api_key |-> key]

\* verify(): the listing of organic_results[:10]
Listing(organic_results) ==
    [i \in 1..Min(Len(organic_results), TopN) |->
        [title   |-> Get(organic_results[i], "title", ""),
         link    |-> Get(organic_results[i], "link", ""),
         snippet |-> Get(organic_results[i], "snippet", "")]]

\* a verification_result that counts the printed slice organic_results[:10]
VerificationResultOfListing(prompt, results) ==
    [prompt       |-> prompt,
     result_count |-> Len(Listing(Get(results, "organic_results", <<>>))),
     analysis     |-> "Basic snippet printout complete."]

\* a verification_result that counts the keys of the dict search() returned
VerificationResultOfKeys(prompt, results) ==
    [prompt       |-> prompt,
     result_count |-> Cardinality(DOMAIN results),
     analysis     |-> "Basic snippet printout complete."]

\* verify(): the verification_result built from the dict search() returned
VerificationResult(prompt, results) ==
    [prompt       |-> prompt,
     result_count |-> Len(Get(results, "organic_results", <<>>)),
     analysis     |-> "Basic snippet printout complete."]

\* no verifier has been constructed
VerifyIdle ==
    /\ ctor_arg = None
    /\ verifier = NoObject
    /\ v_pc = "Start"
    /\ v_prompt = ""
    /\ v_results = NoResponse
    /\ v_printed = <<>>
    /\ v_record = NoRecord
    /\ v_outcome = "none"
    /\ v_error = ""
    /\ searchCalls = 0
    /\ verifyCalls = 0
    /\ networkCalls = 0
    /\ last_params = NoParams

\* GoogleVerifierSerpAPI(api_key=arg)
Construct ==
    /\ UNCHANGED <<searchVars, pipeVars, concVars>>
    /\ v_pc = "Start"
    /\ \E arg \in KeyArgs :
          /\ ctor_arg' = arg
          /\ IF KeyRejected(ResolveKey(arg, env_key))
             THEN /\ v_pc' = "Failed"
                  /\ v_error' = "ValueError"
                  /\ verifier' = NoObject
             ELSE /\ v_pc' = "Ready"
                  /\ v_error' = ""
                  /\ verifier' = [api_key |-> ResolveKey(arg, env_key)]
    /\ UNCHANGED <<env_key, v_prompt, v_results, v_printed, v_record, v_outcome,
                   searchCalls, verifyCalls, networkCalls, last_params>>

\* verify(prompt) up to its call of self.search(prompt), and search() up to the
\* request it sends
VerifyCall ==
    /\ UNCHANGED <<searchVars, pipeVars, concVars>>
    /\ v_pc = "Ready"
    /\ verifyCalls < MaxVerifyCalls
    /\ \E prompt \in Prompts :
          /\ v_prompt' = prompt
          /\ last_params' = SearchParams(prompt, verifier.api_key)
    /\ verifyCalls' = verifyCalls + 1
    /\ searchCalls' = 1
    /\ networkCalls' = networkCalls + 1
    /\ v_outcome' = "none"
    /\ v_error' = ""
    /\ v_pc' = "InSearch"
    /\ UNCHANGED <<env_key, ctor_arg, verifier, v_results, v_printed, v_record>>

\* search.get_dict() returns and search() returns the dict unchanged
SearchReturns ==
    /\ UNCHANGED <<searchVars, pipeVars, concVars>>
    /\ v_pc = "InSearch"
    /\ v_results' \in SearchResponses
    /\ v_pc' = "Analysing"
    /\ UNCHANGED <<env_key, ctor_arg, verifier, v_prompt, v_printed, v_record,
                   v_outcome, v_error, searchCalls, verifyCalls, networkCalls,
                   last_params>>

\* the request fails; the exception leaves search() and verify()
SearchRaises ==
    /\ UNCHANGED <<searchVars, pipeVars, concVars>>
    /\ v_pc = "InSearch"
    /\ v_outcome' = "raised"
    /\ v_error' = "SearchError"
    /\ v_pc' = "Ready"
    /\ UNCHANGED <<env_key, ctor_arg, verifier, v_prompt, v_results, v_printed,
                   v_record, searchCalls, verifyCalls, networkCalls, last_params>>

\* a verify() that searches again when the search found nothing
VerifyFinishRetrying ==
    /\ UNCHANGED <<searchVars, pipeVars, concVars>>
    /\ v_pc = "Analysing"
    /\ IF Get(v_results, "organic_results", <<>>) = <<>> /\ searchCalls < 2
       THEN /\ searchCalls' = searchCalls + 1
            /\ networkCalls' = networkCalls + 1
            /\ v_pc' = "InSearch"
            /\ UNCHANGED <<v_printed, v_record, v_outcome>>
       ELSE /\ v_printed' = Listing(Get(v_results, "organic_results", <<>>))
            /\ v_record' = VerificationResult(v_prompt, v_results)
            /\ v_outcome' = "returned"
            /\ v_pc' = "Ready"
            /\ UNCHANGED <<searchCalls, networkCalls>>
    /\ UNCHANGED <<env_key, ctor_arg, verifier, v_prompt, v_results, v_error,
                   verifyCalls, last_params>>

\* verify() after the search: print the listing, build and return the record
VerifyFinish ==
    /\ UNCHANGED <<searchVars, pipeVars, concVars>>
    /\ v_pc = "Analysing"
    /\ v_printed' = Listing(Get(v_results, "organic_results", <<>>))
    /\ v_record' = VerificationResult(v_prompt, v_results)
    /\ v_outcome' = "returned"
    /\ v_pc' = "Ready"
    /\ UNCHANGED <<env_key, ctor_arg, verifier, v_prompt, v_results, v_error,
                   searchCalls, verifyCalls, networkCalls, last_params>>

----------------------------------------------------------------------------
(* main: generation in a worker process, then verification, then export *)
(*                                                                         *)
(* The body of main(args) is modelled from its first statement.  The worker *)
(* target VllmQueryGeneration.generate(topics, tmp_path) is called by main  *)
(* but defined in none of the source files; it is modelled from the design  *)
(* document (one candidate per topic, written to the artifact file).        *)

\* most seed topics of a run
MaxTopics == 2

Topics == {"t1", "t2"}

NoFile == [no_file |-> TRUE]

\* the candidate the worker generates for a topic
Candidate(topic) == [topic |-> topic, generated_query |-> <<"q", topic>>]

\* the candidate list the worker generates for the topics
Candidates(ts) == [i \in 1..Len(ts) |-> Candidate(ts[i])]

\* a candidates.pkl left in tmp_dir by an earlier run
StaleArtifact ==
    [state |-> "complete", data |-> <<Candidate("old")>>, by |-> "earlier_run"]

AbsentArtifact == [state |-> "absent", data |-> <<>>, by |-> "nobody"]

WorkerExited == worker \in {"exited_ok", "exited_crash"}

PipeIdle ==
    /\ m_pc = "Start"
    /\ worker = "notstarted"
    /\ q_candidates = <<>>
    /\ q_source = "nobody"
    /\ export = NoFile
    /\ m_error = ""

\* main up to p.start(): load the topics, build the generator, start the process
MainStart ==
    /\ m_pc = "Start"
    /\ worker' = "started"
    /\ m_pc' = "Joining"
    /\ UNCHANGED <<topics, artifact, q_candidates, q_source, export, m_error>>
    /\ UNCHANGED <<searchVars, verifyVars, concVars>>

\* worker: generate the candidates and open the artifact file for writing
WorkerOpen ==
    /\ worker = "started"
    /\ worker' = "opened"
    /\ artifact' = [state |-> "partial", data |-> <<>>, by |-> "this_run"]
    /\ UNCHANGED <<m_pc, topics, q_candidates, q_source, export, m_error>>
    /\ UNCHANGED <<searchVars, verifyVars, concVars>>

\* worker: pickle the candidate list into the file and close it
WorkerDump ==
    /\ worker = "opened"
    /\ worker' = "dumped"
    /\ artifact' = [state |-> "complete", data |-> Candidates(topics), by |-> "this_run"]
    /\ UNCHANGED <<m_pc, topics, q_candidates, q_source, export, m_error>>
    /\ UNCHANGED <<searchVars, verifyVars, concVars>>

\* worker: the process ends normally
WorkerExit ==
    /\ worker = "dumped"
    /\ worker' = "exited_ok"
    /\ UNCHANGED <<m_pc, topics, artifact, q_candidates, q_source, export, m_error>>
    /\ UNCHANGED <<searchVars, verifyVars, concVars>>

\* worker: the process dies (an exception in the model runtime, out of memory)
WorkerCrash ==
    /\ worker \in {"started", "opened", "dumped"}
    /\ worker' = "exited_crash"
    /\ UNCHANGED <<m_pc, topics, artifact, q_candidates, q_source, export, m_error>>
    /\ UNCHANGED <<searchVars, verifyVars, concVars>>

\* p.join(): returns once the process has ended, whatever its exit code
MainJoin ==
    /\ m_pc = "Joining"
    /\ WorkerExited
    /\ m_pc' = "Loading"
    /\ UNCHANGED <<topics, worker, artifact, q_candidates, q_source, export, m_error>>
    /\ UNCHANGED <<searchVars, verifyVars, concVars>>

\* with open(tmp_path, "rb") as f: q_candidates = pickle.load(f)
MainLoad ==
    /\ m_pc = "Loading"
    /\ IF artifact.state = "complete"
       THEN /\ q_candidates' = artifact.data
            /\ q_source' = artifact.by
            /\ m_pc' = "Constructing"
            /\ UNCHANGED m_error
       ELSE /\ m_error' = IF artifact.state = "absent"
                          THEN "FileNotFoundError" ELSE "EOFError"
            /\ m_pc' = "Crashed"
            /\ UNCHANGED <<q_candidates, q_source>>
    /\ UNCHANGED <<topics, worker, artifact, export>>
    /\ UNCHANGED <<searchVars, verifyVars, concVars>>

\* verifier = GoogleVerifierSerpAPI()
MainConstruct ==
    /\ m_pc = "Constructing"
    /\ ctor_arg' = None
    /\ IF KeyRejected(ResolveKey(None, env_key))
       THEN /\ v_pc' = "Failed"
            /\ v_error' = "ValueError"
            /\ verifier' = NoObject
            /\ m_error' = "ValueError"
            /\ m_pc' = "Crashed"
       ELSE /\ v_pc' = "Ready"
            /\ v_error' = ""
            /\ verifier' = [api_key |-> ResolveKey(None, env_key)]
            /\ m_pc' = "Verifying"
            /\ UNCHANGED m_error
    /\ UNCHANGED <<env_key, v_prompt, v_results, v_printed, v_record, v_outcome,
                   searchCalls, verifyCalls, networkCalls, last_params>>
    /\ UNCHANGED <<topics, worker, artifact, q_candidates, q_source, export>>
    /\ UNCHANGED <<searchVars, concVars>>

\* verified_queries_df = verifier.verify(q_candidates): one verify() call whose
\* prompt is the whole candidate list
MainVerify ==
    /\ m_pc = "Verifying"
    /\ v_prompt' = q_candidates
    /\ last_params' = SearchParams(q_candidates, verifier.api_key)
    /\ verifyCalls' = verifyCalls + 1
    /\ searchCalls' = 1
    /\ networkCalls' = networkCalls + 1
    /\ \/ \E r \in SearchResponses :
             /\ v_results' = r
             /\ v_printed' = Listing(Get(r, "organic_results", <<>>))
             /\ v_record' = VerificationResult(q_candidates, r)
             /\ v_outcome' = "returned"
             /\ v_error' = ""
             /\ m_pc' = "Exporting"
             /\ UNCHANGED m_error
       \/ /\ v_outcome' = "raised"
          /\ v_error' = "SearchError"
          /\ m_error' = "SearchError"
          /\ m_pc' = "Crashed"
          /\ UNCHANGED <<v_results, v_printed, v_record>>
    /\ UNCHANGED <<env_key, ctor_arg, verifier, v_pc>>
    /\ UNCHANGED <<topics, worker, artifact, q_candidates, q_source, export>>
    /\ UNCHANGED <<searchVars, concVars>>

\* verified_queries_df.to_excel(excel_path, index=False): verify() returned a
\* dict, which has no to_excel
MainExport ==
    /\ m_pc = "Exporting"
    /\ m_error' = "AttributeError"
    /\ m_pc' = "Crashed"
    /\ UNCHANGED <<topics, worker, artifact, q_candidates, q_source, export>>
    /\ UNCHANGED <<searchVars, verifyVars, concVars>>

----------------------------------------------------------------------------
(* Two search() invocations running interleaved on one verifier object *)

Invs == {1, 2}

\* the session GoogleVerifierSelenium.__init__ opened and keeps in self.driver
DriverSession == "self.driver"

\* the session a GoogleVerifierPlaywright.search invocation launches for itself
OwnSession(i) == IF i = 1 THEN "browser-1" ELSE "browser-2"

Sessions == {DriverSession} \cup {OwnSession(i) : i \in Invs}

\* results pages of the queries searched
ConcPages ==
    {<<[h3 |-> <<<<"a">>>>, a |-> "http://u", sn |-> "snip"]>>,
     <<[h3 |-> <<<<"b", " ">>>>, a |-> NoElem, sn |-> NoElem]>>}

\* the session an invocation works on
SessionFor(i) == IF c_backend = "selenium" THEN DriverSession ELSE OwnSession(i)

\* what a search returns for the elements it finds displayed: both sync backends
\* return {"organic_results": ...}; the Playwright one raises when no <h3> appears
SyncOutcome(b, elems) ==
    IF b = "playwright" /\ ~HasH3(elems)
    THEN [raised |-> "TimeoutError"]
    ELSE [organic_results |-> SyncResults(elems)]

ConcIdle ==
    /\ c_pc = [i \in Invs |-> "Idle"]
    /\ c_session = [i \in Invs |-> "none"]
    /\ c_got = [i \in Invs |-> <<>>]
    /\ view = [x \in Sessions |-> <<>>]
    /\ c_result = [i \in Invs |-> NoResponse]

\* search() entered: the Selenium one works on self.driver, the Playwright one
\* launches a browser
ConcLaunch(i) ==
    /\ c_pc[i] = "Idle"
    /\ c_session' = [c_session EXCEPT ![i] = SessionFor(i)]
    /\ c_pc' = [c_pc EXCEPT ![i] = "Navigating"]
    /\ UNCHANGED <<c_backend, c_page, c_got, view, c_result>>
    /\ UNCHANGED <<searchVars, verifyVars, pipeVars>>

\* driver.get / page.goto: the session displays the search engine's home page
ConcGoto(i) ==
    /\ c_pc[i] = "Navigating"
    /\ view' = [view EXCEPT ![c_session[i]] = <<>>]
    /\ c_pc' = [c_pc EXCEPT ![i] = "Typing"]
    /\ UNCHANGED <<c_backend, c_page, c_session, c_got, c_result>>
    /\ UNCHANGED <<searchVars, verifyVars, pipeVars>>

\* type the query and press Enter: the session displays the query's results
\* page, or a block page
ConcSubmit(i) ==
    /\ c_pc[i] = "Typing"
    /\ \E d \in {c_page[i], <<>>} :
          /\ view' = [view EXCEPT ![c_session[i]] = d]
          /\ c_got' = [c_got EXCEPT ![i] = d]
    /\ c_pc' = [c_pc EXCEPT ![i] = "AwaitingResults"]
    /\ UNCHANGED <<c_backend, c_page, c_session, c_result>>
    /\ UNCHANGED <<searchVars, verifyVars, pipeVars>>

\* wait, then read the result elements the session displays and return
ConcExtract(i) ==
    /\ c_pc[i] = "AwaitingResults"
    /\ c_result' = [c_result EXCEPT ![i] = SyncOutcome(c_backend, view[c_session[i]])]
    /\ c_pc' = [c_pc EXCEPT ![i] = "Done"]
    /\ UNCHANGED <<c_backend, c_page, c_session, c_got, view>>
    /\ UNCHANGED <<searchVars, verifyVars, pipeVars>>

----------------------------------------------------------------------------
(* Specifications *)

\* the search variables while no search is modelled
SearchUnused ==
    /\ backend = "async"
    /\ page = <<>>
    /\ SearchIdle

\* the verifier variables while no verifier is modelled
VerifyUnused ==
    /\ env_key = None
    /\ VerifyIdle

\* the pipeline variables while no pipeline is modelled
PipeUnused ==
    /\ topics = <<>>
    /\ artifact = AbsentArtifact
    /\ PipeIdle

\* the two-invocation variables while no such run is modelled
ConcUnused ==
    /\ c_backend = "selenium"
    /\ c_page = [i \in Invs |-> <<>>]
    /\ ConcIdle

InitSearch ==
    /\ backend \in Backends
    /\ page \in Pages
    /\ SearchIdle
    /\ VerifyUnused
    /\ PipeUnused
    /\ ConcUnused

NextSearch ==
    \/ Launch
    \/ Goto
    \/ Submit
    \/ WaitAsync
    \/ WaitPlaywright
    \/ WaitSelenium
    \/ Extract
    \/ ShowMore
    \/ Overview
    \/ Close

SpecSearch == InitSearch /\ [][NextSearch]_vars

InitVerify ==
    /\ env_key \in EnvKeys
    /\ VerifyIdle
    /\ SearchUnused
    /\ PipeUnused
    /\ ConcUnused

NextVerify ==
    \/ Construct
    \/ VerifyCall
    \/ SearchReturns
    \/ SearchRaises
    \/ VerifyFinish

SpecVerify == InitVerify /\ [][NextVerify]_vars

InitPipeline ==
    /\ topics \in SeqsUpTo(Topics, MaxTopics)
    /\ artifact \in {AbsentArtifact, StaleArtifact}
    /\ env_key \in EnvKeys
    /\ PipeIdle
    /\ VerifyIdle
    /\ SearchUnused
    /\ ConcUnused

NextPipeline ==
    \/ MainStart
    \/ WorkerOpen
    \/ WorkerDump
    \/ WorkerExit
    \/ WorkerCrash
    \/ MainJoin
    \/ MainLoad
    \/ MainConstruct
    \/ MainVerify
    \/ MainExport

SpecPipeline == InitPipeline /\ [][NextPipeline]_vars

InitConcurrent ==
    /\ c_backend \in {"selenium", "playwright"}
    /\ c_page \in [Invs -> ConcPages]
    /\ ConcIdle
    /\ SearchUnused
    /\ VerifyUnused
    /\ PipeUnused

NextConcurrent ==
    \/ \E i \in Invs : ConcLaunch(i)
    \/ \E i \in Invs : ConcGoto(i)
    \/ \E i \in Invs : ConcSubmit(i)
    \/ \E i \in Invs : ConcExtract(i)

SpecConcurrent == InitConcurrent /\ [][NextConcurrent]_vars

----------------------------------------------------------------------------
(* Reading a response the way a caller does *)

\* the result list of a response, under whichever key the backend used
ResultsOf(resp) ==
    IF "organic_results" \in DOMAIN resp THEN resp.organic_results
    ELSE IF "results_data" \in DOMAIN resp THEN resp.results_data
    ELSE <<>>

\* the AI overview of a response, "" when the backend returns none
OverviewOf(resp) ==
    IF "ai_overview" \in DOMAIN resp THEN resp.ai_overview ELSE ""

\* every displayed result element has an <h3> whose text is not empty
AllTitled(elems) ==
    \A i \in 1..Len(elems) : elems[i].h3 # <<>> /\ elems[i].h3[1] # <<>>

----------------------------------------------------------------------------
(* Claims about the browser-backed searches (SpecSearch) *)

\* C1: a search whose wait for the results container timed out returns an empty
\* response (no results, empty overview) and does not raise, whichever browser
\* backend ran it.
C1_TimeoutReturnsEmpty ==
    (pc = "Done" /\ timedOut) =>
        /\ outcome = "returned"
        /\ ResultsOf(response) = <<>>
        /\ OverviewOf(response) = ""

\* C2: no search() invocation returns or raises while the browser session it
\* used is still open.
C2_SessionReleasedOnExit ==
    outcome # "none" => session = "closed"

\* C3: on a results page of k result elements that each have a non-empty title,
\* search() returns exactly k results, the i-th being the i-th element with
\* position i.
C3_PositionsOneToK ==
    (outcome = "returned" /\ ~timedOut /\ AllTitled(shown)) =>
        LET rs == ResultsOf(response)
        IN /\ Len(rs) = Len(shown)
           /\ \A i \in 1..Len(rs) :
                 /\ "position" \in DOMAIN rs[i]
                 /\ rs[i].position = i
                 /\ rs[i].title = shown[i].h3[1]

\* C4: no returned result has an empty title, and the returned count never
\* exceeds the number of result elements.
C4_NoEmptyTitle ==
    outcome = "returned" =>
        LET rs == ResultsOf(response)
        IN /\ Len(rs) <= Len(shown)
           /\ \A i \in 1..Len(rs) : rs[i].title # <<>>

----------------------------------------------------------------------------
(* Claims about verify() and the API backend (SpecVerify) *)

\* the number of organic results in a response, counted key by key
OrganicCount(resp) ==
    IF "organic_results" \in DOMAIN resp THEN Len(resp.organic_results) ELSE 0

\* C5: the record a verify(prompt) call returns has result_count equal to the
\* number of organic results in the response this call got from search(), and
\* prompt equal to the call's prompt.
C5_ResultCountMatches ==
    v_outcome = "returned" =>
        /\ v_record.result_count = OrganicCount(v_results)
        /\ v_record.prompt = v_prompt

\* a second verify() call returned a record for a response longer than the listing
C5_Witness ==
    /\ v_outcome = "returned"
    /\ verifyCalls = 2
    /\ v_record.result_count > TopN

\* C6: a verify() call calls search() exactly once from the moment it reaches
\* the call, however many results the search found; so the requests sent equal
\* the verify() calls made.
C6_OneSearchPerVerify ==
    /\ searchCalls <= 1
    /\ (v_pc \in {"InSearch", "Analysing"} \/ v_outcome # "none") => searchCalls = 1
    /\ networkCalls = verifyCalls

\* a verify() call returned after a search that found nothing
C6_Witness ==
    /\ v_outcome = "returned"
    /\ OrganicCount(v_results) = 0
    /\ v_record.result_count = 0
    /\ searchCalls = 1

\* C10: constructing the API backend with no api_key argument and no SERPAPI_KEY
\* in the environment raises ValueError in the constructor, leaves no backend
\* object, and sends no request, then or later.
C10_NoCredentialFailsAtConstruction ==
    (v_pc # "Start" /\ ctor_arg = None /\ env_key = None) =>
        /\ v_pc = "Failed"
        /\ v_error = "ValueError"
        /\ verifier = NoObject
        /\ networkCalls = 0
        /\ verifyCalls = 0

\* the constructor ran with neither credential and failed
C10_Witness ==
    /\ v_pc = "Failed"
    /\ ctor_arg = None
    /\ env_key = None

----------------------------------------------------------------------------
(* Claims about the pipeline (SpecPipeline) *)

MainAfterLoad == m_pc \in {"Constructing", "Verifying", "Exporting", "Done"}

MainEnded == m_pc \in {"Done", "Crashed"}

----------------------------------------------------------------------------
(* Further claims about the browser-backed searches (SpecSearch) *)

\* the search returned after its results wait found the results page
ReturnedLoaded ==
    /\ outcome = "returned"
    /\ ~timedOut
    /\ failure # "CrashDuringWait"

\* C11: the scraper's returned results are those of the page as it is once
\* "Show more" has been handled: read after the click when the control was
\* clicked, and the same results when it was not.
C11_ShowMoreBeforeExtraction ==
    (backend = "async" /\ ReturnedLoaded /\ failure = "") =>
        ResultsOf(response) = ScrapeResults(shown)

C14_UnexpectedFailurePropagates ==
    (pc = "Done" /\ failure # "") => outcome = "raised"

\* C15: every returned response has exactly the keys organic_results and
\* ai_overview, and every result in it has position, title, link and snippet.
C15_UniformShape ==
    outcome = "returned" =>
        /\ DOMAIN response = {"organic_results", "ai_overview"}
        /\ \A i \in 1..Len(ResultsOf(response)) :
              DOMAIN ResultsOf(response)[i] = {"position", "title", "link", "snippet"}

\* C16: once the results wait of a search has timed out (Blocked), the search
\* extracts nothing, attempts neither "Show more" nor the overview, and ends
\* with its session closed.
C16_BlockedGoesToClosed ==
    timedOut =>
        /\ pc = "Done"
        /\ session = "closed"
        /\ organic = <<>>
        /\ ~clickedMore
        /\ seen = NothingSeen

\* an element with a title that every backend emits
Titled(e) == e.h3 # <<>> /\ Strip(e.h3[1]) # <<>>

\* rs holds a result for element e: its title, its link and snippet where it has
\* them, null or empty where it has not
Emits(rs, e) ==
    \E j \in 1..Len(rs) :
        /\ rs[j].title = e.h3[1]
        /\ IF e.a = NoElem THEN rs[j].link \in {None, ""} ELSE rs[j].link = e.a
        /\ IF e.sn = NoElem THEN rs[j].snippet = "" ELSE rs[j].snippet = e.sn

\* C17: every titled element of the results page is emitted, whether or not it
\* has a link or a snippet, with null/empty for the field it lacks only.
C17_MissingFieldsTolerated ==
    ReturnedLoaded =>
        \A i \in 1..Len(page) : Titled(page[i]) => Emits(ResultsOf(response), page[i])

\* two results were returned, from a titled element without link and snippet
\* followed by a titled element
C17_Witness ==
    /\ ReturnedLoaded
    /\ Len(page) = 2
    /\ Titled(page[1]) /\ page[1].a = NoElem /\ page[1].sn = NoElem
    /\ Titled(page[2])
    /\ Len(ResultsOf(response)) = 2
    /\ ResultsOf(response)[1].snippet = ""

\* C19: in the scraper, a result's position is the index of its element among
\* all result elements of the page, skipped ones counted: positions increase
\* strictly and each names the element the result was read from.
C19_PositionIsRawIndex ==
    (backend = "async" /\ ReturnedLoaded) =>
        LET rs == ResultsOf(response)
        IN /\ Len(rs) = Cardinality({i \in 1..Len(page) : page[i].h3 # <<>>})
           /\ \A j \in 1..Len(rs) :
                 /\ rs[j].position \in 1..Len(page)
                 /\ page[rs[j].position].h3 = <<rs[j].title>>
                 /\ j > 1 => rs[j - 1].position < rs[j].position

\* the first result has position 2: a title-less element precedes it
C19_Witness ==
    /\ backend = "async"
    /\ ReturnedLoaded
    /\ page[1].h3 = <<>>
    /\ Len(ResultsOf(response)) = 1
    /\ ResultsOf(response)[1].position = 2

----------------------------------------------------------------------------
(* Further claims about the API backend and verify() (SpecVerify) *)

\* C18: the API backend's credential is the constructor argument when that is
\* non-empty, whatever the environment holds; otherwise it is SERPAPI_KEY
\* when that is non-empty; construction fails exactly when both are absent
\* or empty. The key resolved is the one sent with every request.
C18_CredentialPrecedence ==
    v_pc # "Start" =>
        /\ Truthy(ctor_arg) =>
              /\ v_pc # "Failed"
              /\ verifier = [api_key |-> ctor_arg]
        /\ (~Truthy(ctor_arg) /\ Truthy(env_key)) =>
              /\ v_pc # "Failed"
              /\ verifier = [api_key |-> env_key]
        /\ (v_pc = "Failed") <=> (~Truthy(ctor_arg) /\ ~Truthy(env_key))
        /\ verifyCalls > 0 => last_params.api_key = PyOr(ctor_arg, env_key)

\* constructed with a non-empty argument while SERPAPI_KEY is set, and a
\* request went out with the argument
C18_Witness ==
    /\ ctor_arg = "argkey"
    /\ env_key = "envkey"
    /\ verifier = [api_key |-> "argkey"]
    /\ verifyCalls > 0
    /\ last_params.api_key = "argkey"

\* C20: when the dict search() returned has no organic_results key, verify()
\* returns, printing nothing, the record with result_count 0 and the fixed
\* analysis string, the same record a search that found nothing gives; verify()
\* raises only when search() raised.
C20_MissingKeyCountsZero ==
    /\ (v_outcome = "returned" /\ "organic_results" \notin DOMAIN v_results) =>
          /\ v_record = [prompt       |-> v_prompt,
                         result_count |-> 0,
                         analysis     |-> "Basic snippet printout complete."]
          /\ v_record = VerificationResult(v_prompt, [organic_results |-> <<>>])
          /\ v_printed = <<>>
    /\ v_pc = "Analysing" => ENABLED VerifyFinish
    /\ v_outcome = "raised" => v_error = "SearchError"

\* verify() returned for an API error dict
C20_Witness ==
    /\ v_outcome = "returned"
    /\ v_results = [error |-> "Invalid API key."]
    /\ v_record.result_count = 0

----------------------------------------------------------------------------
(* Claims about interleaved invocations (SpecConcurrent) *)

\* C13: of two search() invocations interleaved on one verifier object, each
\* returns what it would return alone: the results of the page the browser
\* displayed in answer to its own query.
C13_ResultAsAlone ==
    \A i \in Invs :
        c_pc[i] = "Done" => c_result[i] = SyncOutcome(c_backend, c_got[i])

====
